---- MODULE Spec2Model ----
(***************************************************************************)
(* The record store of packages/server/src/db/index.ts (class Database):   *)
(* the generic record log, the typed tables of the record plugins, the     *)
(* notification table and the repo_root table, with the calls that read    *)
(* and write them.  Every await of indexRecord / deleteRecord is a         *)
(* scheduling point: calls of different slots interleave there, and every  *)
(* storage statement may fail.                                             *)
(***************************************************************************)
EXTENDS Naturals, Sequences, FiniteSets, TLC

VARIABLES
    record,             \* table 'record': the generic log, a set of rows
    typed,              \* the plugins' typed tables: collection -> set of rows
    user_notification,  \* the notification table: a bag, row -> copies stored
    repo_root,          \* table 'repo_root': a set of rows [did, root]
    calls,              \* the calls in flight or returned, one per slot
    undisturbed,        \* history: no opposite write on the slot's URI since it began
    failed,             \* history: some indexRecord / deleteRecord call has failed
    lastRoot,           \* history: did -> root of the last completed updateRepoRoot
    pg,                 \* Database.postgres(opts): its outcome and the pool's connections
    feed,               \* the latest rowToFeedItem projections: <<[row, item], ...>>
    scan                \* a caller paging through a collection with a cursor

vars == <<record, typed, user_notification, repo_root, calls, undisturbed,
          failed, lastRoot, pg, feed, scan>>
tables == <<record, typed, user_notification>>
\* What the calls on the tables leave alone.
detached == <<pg, feed, scan>>
\* The tables and their calls.
storage == <<tables, repo_root, calls, undisturbed, failed, lastRoot>>

----------------------------------------------------------------------------
(* Bounds *)

NumKeys == 3       \* record keys of the listed collection
MaxLimit == 3      \* largest limit passed to listRecordsForCollection
MaxCopies == 2     \* copies of one notification event the table may hold
NumScanKeys == 2   \* record keys of the collection paged through
MaxSchemaLen == 2  \* characters of a schema name passed to Database.postgres
MaxConnections == 2 \* connections the pool of a Database opens

----------------------------------------------------------------------------
(* Strings *)

StartsWith(s, p) == Len(s) >= Len(p) /\ SubSeq(s, 1, Len(p)) = p

\* The code points of the characters record keys are made of.
CodePoint ==
    "0" :> 48 @@ "1" :> 49 @@ "2" :> 50 @@ "3" :> 51 @@ "4" :> 52 @@
    "5" :> 53 @@ "6" :> 54 @@ "7" :> 55 @@ "8" :> 56 @@ "9" :> 57

CharCode(ch) == CodePoint[ch]

\* a < b for strings, as the storage engine compares a varchar column
\* (code point by code point, a proper prefix first).
RECURSIVE StrLessFrom(_, _, _)
StrLessFrom(a, b, i) ==
    IF i > Len(b) THEN FALSE
    ELSE IF i > Len(a) THEN TRUE
    ELSE LET x == CharCode(SubSeq(a, i, i))
             y == CharCode(SubSeq(b, i, i))
         IN IF x < y THEN TRUE
            ELSE IF x > y THEN FALSE
            ELSE StrLessFrom(a, b, i + 1)

StrLess(a, b) == StrLessFrom(a, b, 1)

\* The index of the first "/" of s at or after i, or Len(s) + 1.
RECURSIVE SlashFrom(_, _)
SlashFrom(s, i) ==
    IF i > Len(s) THEN i
    ELSE IF SubSeq(s, i, i) = "/" THEN i
    ELSE SlashFrom(s, i + 1)

----------------------------------------------------------------------------
(* AdxUri *)

Scheme == "at://"

AdxUri(host, collection, recordKey) ==
    [host |-> host, collection |-> collection, recordKey |-> recordKey]

UriToString(uri) ==
    Scheme \o uri.host \o "/" \o uri.collection \o "/" \o uri.recordKey

\* The host of a serialized URI: what follows the scheme, up to the next "/".
UriHostOf(s) ==
    LET from == Len(Scheme) + 1
    IN SubSeq(s, from, SlashFrom(s, from) - 1)

\* The record key of a serialized URI: what follows the collection.
UriRecordKeyOf(s) ==
    LET host == Len(Scheme) + 1
        collection == SlashFrom(s, host) + 1
    IN SubSeq(s, SlashFrom(s, collection) + 1, Len(s))

----------------------------------------------------------------------------
(* JSON *)

Null == [null |-> TRUE]

SubjectOpen == "{\"subject\":\""
TextOpen == "{\"text\":\""
ObjectClose == "\"}"

JSONStringify(obj) ==
    IF "subject" \in DOMAIN obj THEN SubjectOpen \o obj.subject \o ObjectClose
    ELSE TextOpen \o obj.text \o ObjectClose

JSONParse(raw) ==
    IF StartsWith(raw, SubjectOpen)
    THEN [subject |-> SubSeq(raw, Len(SubjectOpen) + 1, Len(raw) - Len(ObjectClose))]
    ELSE [text |-> SubSeq(raw, Len(TextOpen) + 1, Len(raw) - Len(ObjectClose))]

----------------------------------------------------------------------------
(* CID *)

\* A content address; its string form is the multibase prefix and the digest.
Multibase == "b"
CidToString(cid) == Multibase \o cid.digest
CidParse(str) == [digest |-> SubSeq(str, Len(Multibase) + 1, Len(str))]

----------------------------------------------------------------------------
(* Errors and call results *)

ExpectedDid == "Expected indexed URI to contain DID"
ExpectedCollection == "Expected indexed URI to contain a collection"
ExpectedRecordKey == "Expected indexed URI to contain a record key"
TableNotFound == "Could not find table for collection"
\* What the backend raises: a statement that could not be executed, and an
\* insert of a primary key the table already holds.
StorageUnavailable == "storage: statement failed"
StorageConflict == "storage: unique constraint failed"

ContractViolations == {ExpectedDid, ExpectedCollection, ExpectedRecordKey}
StorageFailures == {StorageUnavailable, StorageConflict}

Pending == [threw |-> "", returned |-> FALSE, value |-> Null]
Returned(v) == [threw |-> "", returned |-> TRUE, value |-> v]
Threw(e) == [threw |-> e, returned |-> FALSE, value |-> Null]

----------------------------------------------------------------------------
(* Record plugins, the schema validator and the notification sink *)

\* this.records, in the order the constructor builds it.
records ==
    << [name |-> "post", collection |-> "app.bsky.post", required |-> "text",
        notifies |-> FALSE],
       [name |-> "like", collection |-> "app.bsky.like", required |-> "subject",
        notifies |-> TRUE],
       [name |-> "repost", collection |-> "app.bsky.repost", required |-> "subject",
        notifies |-> TRUE],
       [name |-> "follow", collection |-> "app.bsky.follow", required |-> "subject",
        notifies |-> TRUE],
       [name |-> "badge", collection |-> "app.bsky.badge", required |-> "subject",
        notifies |-> FALSE],
       [name |-> "profile", collection |-> "app.bsky.profile", required |-> "text",
        notifies |-> FALSE] >>

PluginCollections == {records[i].collection : i \in DOMAIN records}

\* ValidationResult: valid is derived from the code.
ValidationResult(code, message) ==
    [valid |-> code \in {"Full", "Partial"}, code |-> code, message |-> message]

\* plugin.validateSchema(obj): the schema validator's verdict for the
\* plugin's collection.
ValidateSchema(plugin, obj) ==
    IF plugin.required \in DOMAIN obj
    THEN ValidationResult("Full", "")
    ELSE ValidationResult("Invalid", "Missing required field")

\* The row plugin.insert(uri, obj) writes into the plugin's typed table.
TypedRow(uri, obj) ==
    [uri |-> UriToString(uri), creator |-> uri.host, value |-> obj]

\* plugin.notifsForRecord(uri, obj): a like or a repost notifies the author
\* of its subject, a follow the identity that is its subject; the other
\* collections notify nobody.
NotifsForRecord(plugin, uri, obj) ==
    IF plugin.notifies /\ "subject" \in DOMAIN obj
    THEN {[userDid |-> IF StartsWith(obj.subject, Scheme)
                       THEN UriHostOf(obj.subject) ELSE obj.subject,
           author |-> uri.host,
           recordUri |-> UriToString(uri), reason |-> plugin.name]}
    ELSE {}

\* notifications.process(notifs): one more copy of every event is stored.
NotificationsProcess(store, notifs) ==
    [n \in DOMAIN store \cup notifs |->
        (IF n \in DOMAIN store THEN store[n] ELSE 0) + (IF n \in notifs THEN 1 ELSE 0)]

\* notifications.deleteForRecord(uri): every event of that source goes.
NotificationsDeleteForRecord(store, uri) ==
    [n \in {m \in DOMAIN store : m.recordUri # UriToString(uri)} |-> store[n]]

\* A deleteFrom('record') whose where clause is given the URI object's key
\* instead of its string form.
RecordDeleteByKey(rows, uri) == {r \in rows : r.uri # uri.recordKey}

\* A deleteFrom('record') that filters on the collection column.
RecordDeleteCollection(rows, uri) == {r \in rows : r.collection # uri.collection}

\* deleteFrom('record').where('uri', '=', uri.toString()) on the log's rows.
RecordDelete(rows, uri) == {r \in rows : r.uri # UriToString(uri)}

\* plugin.delete(uri) on the rows of the plugin's typed table.
PluginDelete(rows, uri) == {r \in rows : r.uri # UriToString(uri)}

----------------------------------------------------------------------------
(* Database: lookups and reads *)

Min(S) == CHOOSE x \in S : \A y \in S : x <= y

findTableForCollection(collection) ==
    LET hits == {i \in DOMAIN records : records[i].collection = collection}
    IN IF hits = {} THEN Threw(TableNotFound) ELSE Returned(records[Min(hits)])

validateRecord(collection, obj) ==
    LET table == findTableForCollection(collection)
    IN IF table.threw # ""
       THEN Returned(ValidationResult("Incompatible", "Schema not found"))
       ELSE Returned(ValidateSchema(table.value, obj))

\* canIndexRecord answering from the lookup alone.
canIndexRecordFound(collection, obj) ==
    LET table == findTableForCollection(collection)
    IN IF table.threw # "" THEN Threw(table.threw) ELSE Returned(TRUE)

\* canIndexRecord swallowing the lookup failure, as validateRecord does.
canIndexRecordCaught(collection, obj) ==
    LET table == findTableForCollection(collection)
    IN IF table.threw # ""
       THEN Returned(FALSE)
       ELSE Returned(ValidateSchema(table.value, obj).valid)

canIndexRecord(collection, obj) ==
    LET table == findTableForCollection(collection)
    IN IF table.threw # ""
       THEN Threw(table.threw)
       ELSE Returned(ValidateSchema(table.value, obj).valid)

getRecord(uri) ==
    LET found == {r \in record : r.uri = UriToString(uri)}
    IN IF found = {} THEN Null ELSE JSONParse((CHOOSE r \in found : TRUE).raw)

\* The collection of every row of the did, one entry per row: collection ->
\* number of entries (the order of the array is the engine's).
listCollectionsForDid(did) ==
    LET rows == {r \in record : r.did = did}
    IN [c \in {r.collection : r \in rows} |->
            Cardinality({r \in rows : r.collection = c})]

\* ORDER BY with the direction ignored: always ascending.
RECURSIVE OrderByAsc(_, _)
OrderByAsc(rows, desc) ==
    IF rows = {} THEN <<>>
    ELSE LET first == CHOOSE r \in rows : \A q \in rows :
                        ~StrLess(q.recordKey, r.recordKey)
         IN <<first>> \o OrderByAsc(rows \ {first}, desc)

\* ORDER BY recordKey: the rows as a sequence, ascending or descending.
RECURSIVE OrderBy(_, _)
OrderBy(rows, desc) ==
    IF rows = {} THEN <<>>
    ELSE LET first == CHOOSE r \in rows : \A q \in rows :
                        IF desc THEN ~StrLess(r.recordKey, q.recordKey)
                        ELSE ~StrLess(q.recordKey, r.recordKey)
         IN <<first>> \o OrderBy(rows \ {first}, desc)

\* LIMIT: the first limit rows.
Limit(rows, limit) == SubSeq(rows, 1, IF limit < Len(rows) THEN limit ELSE Len(rows))

\* res.map((row) => ({ uri: row.uri, value: JSON.parse(row.raw) }))
MapRows(res) == [i \in DOMAIN res |-> [uri |-> res[i].uri, value |-> JSONParse(res[i].raw)]]

\* before and after are optional: <<>> is undefined, <<k>> is the bound k.
\* A listing whose bounds include the key given (<= and >=).
listRecordsForCollectionInclusive(did, collection, limit, reverse, before, after) ==
    LET rows == {r \in record :
                    /\ r.did = did
                    /\ r.collection = collection
                    /\ before # <<>> => ~StrLess(before[1], r.recordKey)
                    /\ after # <<>> => ~StrLess(r.recordKey, after[1])}
    IN MapRows(Limit(OrderBy(rows, reverse), limit))

listRecordsForCollection(did, collection, limit, reverse, before, after) ==
    LET rows == {r \in record :
                    /\ r.did = did
                    /\ r.collection = collection
                    /\ before # <<>> => StrLess(r.recordKey, before[1])
                    /\ after # <<>> => StrLess(after[1], r.recordKey)}
    IN MapRows(Limit(OrderBy(rows, reverse), limit))

getRepoRoot(did) ==
    LET found == {r \in repo_root : r.did = did}
    IN IF found = {} THEN Null ELSE CidParse((CHOOSE r \in found : TRUE).root)

----------------------------------------------------------------------------
(* Calls *)

NoUri == AdxUri("", "", "")

IdleCall ==
    [op |-> "none", uri |-> NoUri, collection |-> "", obj |-> Null,
     pc |-> "idle", pending |-> {}, result |-> Pending]

Removals == {"typed", "log", "notifs"}

\* No traversal yet.  owed: the records of the collection stored ever since
\* the traversal began and not returned by a page so far.
NoScan ==
    [pc |-> "idle", did |-> "", collection |-> "", limit |-> 0, reverse |-> FALSE,
     cursor |-> <<>>, page |-> <<>>, pages |-> 0, owed |-> {}]

\* History: the log row of uri is removed, which ends its presence for the
\* traversal in progress.
Unstable(uri) ==
    IF scan.pc = "paging" /\ uri.host = scan.did /\ uri.collection = scan.collection
    THEN [scan EXCEPT !.owed = @ \ {UriToString(uri)}]
    ELSE scan

\* A slot takes a new call once its last one has returned and none of its
\* statements is still in flight.
Free(c) == calls[c].pc \in {"idle", "done"}

InProgress(c) == ~Free(c)

\* The row with the collection and recordKey columns filled from each other.
RecordRowSwapped(uri, obj) ==
    [uri |-> UriToString(uri), did |-> uri.host, collection |-> uri.recordKey,
     recordKey |-> uri.collection, raw |-> JSONStringify(obj)]

\* The row indexRecord builds from uri and obj (the two timestamps, which no
\* read of this file returns, are left out).
RecordRow(uri, obj) ==
    [uri |-> UriToString(uri), did |-> uri.host, collection |-> uri.collection,
     recordKey |-> uri.recordKey, raw |-> JSONStringify(obj)]

\* History: a statement of an indexRecord was applied for uri, which ends the
\* "until it is indexed again" of every deleteRecord of that uri, and the
\* other way round.
Disturb(c, op, uri) ==
    [d \in DOMAIN undisturbed |->
        IF d # c /\ calls[d].op # op /\ calls[d].op \in {"indexRecord", "deleteRecord"}
              /\ UriToString(calls[d].uri) = UriToString(uri)
        THEN FALSE ELSE undisturbed[d]]

\* uri is in neither the log nor the typed table of its collection.
Absent(uri) ==
    /\ \A r \in record : r.uri # UriToString(uri)
    /\ \A t \in typed[uri.collection] : t.uri # UriToString(uri)

\* The slot's call ends with result r.
Finish(c, r) == [calls EXCEPT ![c].pc = "done", ![c].result = r]

(* validateRecord and canIndexRecord: synchronous, no statement issued *)

ValidateRecord(c, collection, obj) ==
    /\ Free(c)
    /\ calls' = [calls EXCEPT ![c] =
            [IdleCall EXCEPT !.op = "validateRecord", !.collection = collection,
                             !.obj = obj, !.pc = "done",
                             !.result = validateRecord(collection, obj)]]
    /\ undisturbed' = [undisturbed EXCEPT ![c] = TRUE]
    /\ UNCHANGED <<tables, repo_root, failed, lastRoot>>
    /\ UNCHANGED detached

CanIndexRecord(c, collection, obj) ==
    /\ Free(c)
    /\ calls' = [calls EXCEPT ![c] =
            [IdleCall EXCEPT !.op = "canIndexRecord", !.collection = collection,
                             !.obj = obj, !.pc = "done",
                             !.result = canIndexRecord(collection, obj)]]
    /\ undisturbed' = [undisturbed EXCEPT ![c] = TRUE]
    /\ UNCHANGED <<tables, repo_root, failed, lastRoot>>
    /\ UNCHANGED detached

(* indexRecord *)

\* The checks without the last one.
UriErrorNoKey(row) ==
    IF ~StartsWith(row.did, "did:") THEN ExpectedDid
    ELSE IF Len(row.collection) < 1 THEN ExpectedCollection
    ELSE ""

\* The error indexRecord throws for the row it built, "" when it throws none.
UriError(row) ==
    IF ~StartsWith(row.did, "did:") THEN ExpectedDid
    ELSE IF Len(row.collection) < 1 THEN ExpectedCollection
    ELSE IF Len(row.recordKey) < 1 THEN ExpectedRecordKey
    ELSE ""

\* An indexRecord that starts with the plugin's insert, the log insert left out.
IndexRecordTypedFirst(c, uri, obj) ==
    LET row == RecordRow(uri, obj)
        call == [IdleCall EXCEPT !.op = "indexRecord", !.uri = uri,
                                 !.collection = uri.collection, !.obj = obj]
        error == UriError(row)
    IN /\ Free(c)
       /\ calls' = [calls EXCEPT ![c] =
            IF error # ""
            THEN [call EXCEPT !.pc = "done", !.result = Threw(error)]
            ELSE [call EXCEPT !.pc = "typed"]]
       /\ failed' = (failed \/ error # "")
       /\ undisturbed' = [undisturbed EXCEPT ![c] = TRUE]
       /\ UNCHANGED <<tables, repo_root, lastRoot>>
       /\ UNCHANGED detached

\* An indexRecord that asks canIndexRecord first and rejects what it refuses.
IndexRecordValidated(c, uri, obj) ==
    LET row == RecordRow(uri, obj)
        call == [IdleCall EXCEPT !.op = "indexRecord", !.uri = uri,
                                 !.collection = uri.collection, !.obj = obj]
        can == canIndexRecord(uri.collection, obj)
        error == IF UriError(row) # "" THEN UriError(row)
                 ELSE IF can.threw # "" THEN can.threw
                 ELSE IF ~can.value THEN "Record failed validation"
                 ELSE ""
    IN /\ Free(c)
       /\ calls' = [calls EXCEPT ![c] =
            IF error # ""
            THEN [call EXCEPT !.pc = "done", !.result = Threw(error)]
            ELSE [call EXCEPT !.pc = "log"]]
       /\ failed' = (failed \/ error # "")
       /\ undisturbed' = [undisturbed EXCEPT ![c] = TRUE]
       /\ UNCHANGED <<tables, repo_root, lastRoot>>
       /\ UNCHANGED detached

\* The call up to its first await: the row is built and the URI checked; the
\* insert into 'record' is issued when the URI passes.
IndexRecord(c, uri, obj) ==
    LET row == RecordRow(uri, obj)
        call == [IdleCall EXCEPT !.op = "indexRecord", !.uri = uri,
                                 !.collection = uri.collection, !.obj = obj]
        error == UriError(row)
    IN /\ Free(c)
       /\ calls' = [calls EXCEPT ![c] =
            IF error # ""
            THEN [call EXCEPT !.pc = "done", !.result = Threw(error)]
            ELSE [call EXCEPT !.pc = "log"]]
       /\ failed' = (failed \/ error # "")
       /\ undisturbed' = [undisturbed EXCEPT ![c] = TRUE]
       /\ UNCHANGED <<tables, repo_root, lastRoot>>
       /\ UNCHANGED detached

\* A log insert that replaces the row of a URI already stored.
IndexInsertRecordReplace(c) ==
    LET uri == calls[c].uri
        row == RecordRow(uri, calls[c].obj)
    IN /\ calls[c].pc = "log"
       /\ \E ok \in BOOLEAN :
            IF ~ok
            THEN /\ calls' = Finish(c, Threw(StorageUnavailable))
                 /\ failed' = TRUE
                 /\ UNCHANGED <<tables, undisturbed>>
            ELSE /\ record' = {r \in record : r.uri # row.uri} \cup {row}
                 /\ calls' = [calls EXCEPT ![c].pc = "typed"]
                 /\ undisturbed' = Disturb(c, "indexRecord", uri)
                 /\ UNCHANGED <<typed, user_notification, failed>>
       /\ UNCHANGED <<repo_root, lastRoot>>
       /\ UNCHANGED detached

\* await this.db.insertInto('record').values(record).execute()
IndexInsertRecord(c) ==
    LET uri == calls[c].uri
        row == RecordRow(uri, calls[c].obj)
    IN /\ calls[c].pc = "log"
       /\ \E ok \in BOOLEAN :
            IF ~ok
            THEN /\ calls' = Finish(c, Threw(StorageUnavailable))
                 /\ failed' = TRUE
                 /\ UNCHANGED <<tables, undisturbed>>
            ELSE IF \E r \in record : r.uri = row.uri
            THEN /\ calls' = Finish(c, Threw(StorageConflict))
                 /\ failed' = TRUE
                 /\ UNCHANGED <<tables, undisturbed>>
            ELSE /\ record' = record \cup {row}
                 /\ calls' = [calls EXCEPT ![c].pc = "typed"]
                 /\ undisturbed' = Disturb(c, "indexRecord", uri)
                 /\ UNCHANGED <<typed, user_notification, failed>>
       /\ UNCHANGED <<repo_root, lastRoot>>
       /\ UNCHANGED detached

\* const table = this.findTableForCollection(uri.collection)
\* await table.insert(uri, obj)
IndexInsertTyped(c) ==
    LET uri == calls[c].uri
        table == findTableForCollection(uri.collection)
        row == TypedRow(uri, calls[c].obj)
    IN /\ calls[c].pc = "typed"
       /\ IF table.threw # ""
          THEN /\ calls' = Finish(c, Threw(table.threw))
               /\ failed' = TRUE
               /\ UNCHANGED <<tables, undisturbed>>
          ELSE \E ok \in BOOLEAN :
            IF ~ok
            THEN /\ calls' = Finish(c, Threw(StorageUnavailable))
                 /\ failed' = TRUE
                 /\ UNCHANGED <<tables, undisturbed>>
            ELSE IF \E r \in typed[uri.collection] : r.uri = row.uri
            THEN /\ calls' = Finish(c, Threw(StorageConflict))
                 /\ failed' = TRUE
                 /\ UNCHANGED <<tables, undisturbed>>
            ELSE /\ typed' = [typed EXCEPT ![uri.collection] = @ \cup {row}]
                 /\ calls' = [calls EXCEPT ![c].pc = "notifs"]
                 /\ undisturbed' = Disturb(c, "indexRecord", uri)
                 /\ UNCHANGED <<record, user_notification, failed>>
       /\ UNCHANGED <<repo_root, lastRoot>>
       /\ UNCHANGED detached

\* const notifs = table.notifsForRecord(uri, obj)
\* await this.notifications.process(notifs)
IndexProcessNotifs(c) ==
    LET uri == calls[c].uri
        table == findTableForCollection(uri.collection)
        notifs == NotifsForRecord(table.value, uri, calls[c].obj)
        stored == NotificationsProcess(user_notification, notifs)
    IN /\ calls[c].pc = "notifs"
       /\ \E ok \in BOOLEAN :
            IF ~ok
            THEN /\ calls' = Finish(c, Threw(StorageUnavailable))
                 /\ failed' = TRUE
                 /\ UNCHANGED <<tables, undisturbed>>
            ELSE /\ \A n \in DOMAIN stored : stored[n] <= MaxCopies
                 /\ user_notification' = stored
                 /\ calls' = Finish(c, Returned(Null))
                 /\ undisturbed' = Disturb(c, "indexRecord", uri)
                 /\ UNCHANGED <<record, typed, failed>>
       /\ UNCHANGED <<repo_root, lastRoot>>
       /\ UNCHANGED detached

(* deleteRecord *)

\* A deleteRecord that issues the removal from 'record' before it looks the
\* plugin up.
DeleteRecordQueryFirst(c, uri) ==
    LET table == findTableForCollection(uri.collection)
        call == [IdleCall EXCEPT !.op = "deleteRecord", !.uri = uri,
                                 !.collection = uri.collection]
    IN /\ Free(c)
       /\ calls' = [calls EXCEPT ![c] =
            IF table.threw # ""
            THEN [call EXCEPT !.pc = "done", !.result = Threw(table.threw)]
            ELSE [call EXCEPT !.pc = "removing", !.pending = Removals]]
       /\ failed' = (failed \/ table.threw # "")
       /\ undisturbed' = [undisturbed EXCEPT ![c] = TRUE]
       /\ record' = IF table.threw # "" THEN RecordDelete(record, uri) ELSE record
       /\ UNCHANGED <<typed, user_notification, repo_root, lastRoot>>
       /\ UNCHANGED detached

\* The call up to its await: the plugin is resolved and the three removals
\* are issued together.
DeleteRecord(c, uri) ==
    LET table == findTableForCollection(uri.collection)
        call == [IdleCall EXCEPT !.op = "deleteRecord", !.uri = uri,
                                 !.collection = uri.collection]
    IN /\ Free(c)
       /\ calls' = [calls EXCEPT ![c] =
            IF table.threw # ""
            THEN [call EXCEPT !.pc = "done", !.result = Threw(table.threw)]
            ELSE [call EXCEPT !.pc = "removing", !.pending = Removals]]
       /\ failed' = (failed \/ table.threw # "")
       /\ undisturbed' = [undisturbed EXCEPT ![c] = TRUE]
       /\ UNCHANGED <<tables, repo_root, lastRoot>>
       /\ UNCHANGED detached

\* A joint await that reports what the removal finishing last reports
\* (an earlier rejection is lost).
SettleLast(c, removal, ok) ==
    LET call == calls[c]
        left == call.pending \ {removal}
        res == IF ~ok THEN Threw(StorageUnavailable) ELSE Pending
    IN [calls EXCEPT ![c] =
            [call EXCEPT !.pending = left,
                         !.pc = IF left = {} THEN "done" ELSE "removing",
                         !.result = IF left = {} /\ res.threw = ""
                                    THEN Returned(Null) ELSE res]]

\* Promise.all: the call is rejected by the first removal that fails and
\* resolved when all three have finished; a removal issued is executed
\* whatever becomes of the others.
Settle(c, removal, ok) ==
    LET call == calls[c]
        left == call.pending \ {removal}
        res == IF ~ok /\ call.result.threw = ""
               THEN Threw(StorageUnavailable) ELSE call.result
    IN [calls EXCEPT ![c] =
            [call EXCEPT !.pending = left,
                         !.pc = IF left = {} THEN "done" ELSE "removing",
                         !.result = IF left = {} /\ res.threw = ""
                                    THEN Returned(Null) ELSE res]]

\* table.delete(uri)
DeleteTyped(c) ==
    LET uri == calls[c].uri
    IN /\ calls[c].pc = "removing"
       /\ "typed" \in calls[c].pending
       /\ \E ok \in BOOLEAN :
            /\ calls' = Settle(c, "typed", ok)
            /\ failed' = (failed \/ ~ok)
            /\ IF ok
               THEN /\ typed' = [typed EXCEPT ![uri.collection] = PluginDelete(@, uri)]
                    /\ undisturbed' = Disturb(c, "deleteRecord", uri)
               ELSE UNCHANGED <<typed, undisturbed>>
       /\ UNCHANGED <<record, user_notification, repo_root, lastRoot>>
       /\ UNCHANGED detached

\* this.db.deleteFrom('record').where('uri', '=', uri.toString()).execute()
DeleteFromRecord(c) ==
    LET uri == calls[c].uri
    IN /\ calls[c].pc = "removing"
       /\ "log" \in calls[c].pending
       /\ \E ok \in BOOLEAN :
            /\ calls' = Settle(c, "log", ok)
            /\ failed' = (failed \/ ~ok)
            /\ IF ok
               THEN /\ record' = RecordDelete(record, uri)
                    /\ undisturbed' = Disturb(c, "deleteRecord", uri)
                    /\ scan' = Unstable(uri)
               ELSE UNCHANGED <<record, undisturbed, scan>>
       /\ UNCHANGED <<typed, user_notification, repo_root, lastRoot>>
       /\ UNCHANGED <<pg, feed>>

\* this.notifications.deleteForRecord(uri)
DeleteNotifs(c) ==
    LET uri == calls[c].uri
    IN /\ calls[c].pc = "removing"
       /\ "notifs" \in calls[c].pending
       /\ \E ok \in BOOLEAN :
            /\ calls' = Settle(c, "notifs", ok)
            /\ failed' = (failed \/ ~ok)
            /\ IF ok
               THEN /\ user_notification' =
                        NotificationsDeleteForRecord(user_notification, uri)
                    /\ undisturbed' = Disturb(c, "deleteRecord", uri)
               ELSE UNCHANGED <<user_notification, undisturbed>>
       /\ UNCHANGED <<record, typed, repo_root, lastRoot>>
       /\ UNCHANGED detached

(* updateRepoRoot: one UPDATE statement *)

UpdateRepoRoot(did, root) ==
    /\ \E ok \in BOOLEAN :
        IF ok
        THEN /\ repo_root' = {IF r.did = did
                              THEN [r EXCEPT !.root = CidToString(root)]
                              ELSE r : r \in repo_root}
             /\ lastRoot' = [lastRoot EXCEPT ![did] = root]
        ELSE UNCHANGED <<repo_root, lastRoot>>
    /\ UNCHANGED <<tables, calls, undisturbed, failed>>
    /\ UNCHANGED detached

----------------------------------------------------------------------------
(* Database.postgres: the schema name is tested before the handle is built *)

\* The code points of the characters schema names are made of.
AsciiCode ==
    "-" :> 45 @@ "0" :> 48 @@ "@" :> 64 @@ "A" :> 65 @@ "Z" :> 90 @@
    "[" :> 91 @@ "^" :> 94 @@ "_" :> 95 @@ "a" :> 97 @@ "z" :> 122 @@
    "{" :> 123

\* The i flag: characters are compared by their upper-case forms.
Canonicalize(code) == IF code >= 97 /\ code <= 122 THEN code - 32 ELSE code

\* The class [a-z_] under the i flag.
ClassMatches(ch) ==
    \E member \in (97 .. 122) \cup {95} :
        Canonicalize(member) = Canonicalize(AsciiCode[ch])

\* A test that asks for one character of the class somewhere: /[a-z_]+/i.
SchemaTestUnanchored(schema) ==
    \E i \in 1 .. Len(schema) : ClassMatches(SubSeq(schema, i, i))

\* /^[a-z_]+$/i.test(schema)
SchemaTest(schema) ==
    /\ Len(schema) >= 1
    /\ \A i \in 1 .. Len(schema) : ClassMatches(SubSeq(schema, i, i))

SchemaError(schema) == "Postgres schema must only contain [A-Za-z_]: " \o schema

\* No Database.postgres call yet.
NoPg ==
    [called |-> FALSE, schema |-> <<>>, pool |-> FALSE, int8AsInteger |-> FALSE,
     onConnect |-> <<>>, threw |-> "", database |-> FALSE,
     connections |-> 0, searchPaths |-> <<>>]

\* static async postgres(opts): the pool is built (it opens no connection
\* before a query asks for one), the INT8 parser set, the schema name tested
\* and its connect handler registered, the Database returned.  opts.schema
\* is <<>> when undefined.
Postgres(schema) ==
    LET rejected == schema # <<>> /\ ~SchemaTest(schema[1])
    IN /\ pg' = [called |-> TRUE, schema |-> schema, pool |-> TRUE,
                 int8AsInteger |-> TRUE,
                 onConnect |-> IF rejected THEN <<>> ELSE schema,
                 threw |-> IF rejected THEN SchemaError(schema[1]) ELSE "",
                 database |-> ~rejected,
                 connections |-> 0, searchPaths |-> <<>>]
       /\ UNCHANGED <<storage, feed, scan>>

\* A query of the Database returned makes its pool open a connection; the
\* pool emits 'connect' and the handler sets the search path.
PgConnect ==
    /\ pg.database
    /\ pg.connections < MaxConnections
    /\ pg' = [pg EXCEPT !.connections = @ + 1,
                        !.searchPaths = @ \o pg.onConnect]
    /\ UNCHANGED <<storage, feed, scan>>

----------------------------------------------------------------------------
(* rowToFeedItem: a row of the feed query to the item returned to the caller *)

Undefined == [undefined |-> TRUE]

\* A string held by a field that may be null or undefined.
JsString(s) == [string |-> s]

\* value ?? fallback
NullishCoalesce(value, fallback) ==
    IF value = Null \/ value = Undefined THEN fallback ELSE value

\* A projection that fills repostedBy whatever the row's type.
rowToFeedItemAlwaysReposted(row) ==
    [cursor |-> row.cursor,
     uri |-> row.postUri,
     author |-> [did |-> row.authorDid,
                 name |-> row.authorName,
                 displayName |-> NullishCoalesce(row.authorDisplayName, Undefined)],
     repostedBy |-> [did |-> row.originatorDid,
                     name |-> row.originatorName,
                     displayName |->
                         NullishCoalesce(row.originatorDisplayName, Undefined)],
     record |-> JSONParse(row.recordRaw),
     replyCount |-> row.replyCount,
     repostCount |-> row.repostCount,
     likeCount |-> row.likeCount,
     indexedAt |-> row.indexedAt,
     myState |-> [repost |-> NullishCoalesce(row.requesterRepost, Undefined),
                  like |-> NullishCoalesce(row.requesterLike, Undefined)]]

rowToFeedItem(row) ==
    [cursor |-> row.cursor,
     uri |-> row.postUri,
     author |-> [did |-> row.authorDid,
                 name |-> row.authorName,
                 displayName |-> NullishCoalesce(row.authorDisplayName, Undefined)],
     repostedBy |->
         IF row.type = "repost"
         THEN [did |-> row.originatorDid,
               name |-> row.originatorName,
               displayName |-> NullishCoalesce(row.originatorDisplayName, Undefined)]
         ELSE Undefined,
     record |-> JSONParse(row.recordRaw),
     replyCount |-> row.replyCount,
     repostCount |-> row.repostCount,
     likeCount |-> row.likeCount,
     indexedAt |-> row.indexedAt,
     myState |-> [repost |-> NullishCoalesce(row.requesterRepost, Undefined),
                  like |-> NullishCoalesce(row.requesterLike, Undefined)]]

\* A caller projects a row; the two latest projections are kept.
RowToFeedItem(row) ==
    /\ feed' = <<[row |-> row, item |-> rowToFeedItem(row)]>>
                   \o SubSeq(feed, 1, IF Len(feed) = 0 THEN 0 ELSE 1)
    /\ UNCHANGED <<storage, pg, scan>>

----------------------------------------------------------------------------
(* A caller paging through listRecordsForCollection with the record key as cursor *)

\* The caller starts a traversal: no bound on the first page.
ScanStart(did, collection, limit, reverse) ==
    /\ scan.pc \in {"idle", "ended"}
    /\ scan' = [pc |-> "paging", did |-> did, collection |-> collection,
                limit |-> limit, reverse |-> reverse, cursor |-> <<>>, page |-> <<>>,
                pages |-> 0,
                owed |-> {r.uri : r \in {q \in record :
                                            q.did = did /\ q.collection = collection}}]
    /\ UNCHANGED <<storage, pg, feed>>

\* The caller asks for the next page, bounded by the last key of the page
\* before, and stops at an empty page.
ScanPage ==
    LET res == IF scan.reverse
               THEN listRecordsForCollection(scan.did, scan.collection, scan.limit,
                                             TRUE, scan.cursor, <<>>)
               ELSE listRecordsForCollection(scan.did, scan.collection, scan.limit,
                                             FALSE, <<>>, scan.cursor)
        keys == [i \in DOMAIN res |-> UriRecordKeyOf(res[i].uri)]
    IN /\ scan.pc = "paging"
       /\ scan' = [scan EXCEPT
                     !.pc = IF res = <<>> THEN "ended" ELSE "paging",
                     !.page = keys,
                     !.pages = @ + 1,
                     !.cursor = IF res = <<>> THEN @ ELSE <<keys[Len(keys)]>>,
                     !.owed = @ \ {res[i].uri : i \in DOMAIN res}]
       /\ UNCHANGED <<storage, pg, feed>>

----------------------------------------------------------------------------
(* Inputs *)

\* The callers: each has at most one call in flight, so two calls overlap.
Slots == {1, 2}

Like == "app.bsky.like"
Post == "app.bsky.post"
Profile == "app.bsky.profile"
Unregistered == "app.x.unknown"

\* Payloads: a like of a post of did:b, and a post (which is no valid like).
LikeOfB == [subject |-> "at://did:b/app.bsky.post/1"]
PostHi == [text |-> "hi"]
Objs == {LikeOfB, PostHi}

\* URIs of the write path: records of registered collections, one of a
\* collection without plugin, and one for each way a URI can be malformed.
CoreUris == {AdxUri("did:a", Like, "1"), AdxUri("did:b", Like, "1")}
WellFormedUris ==
    {AdxUri("did:a", Like, "1"), AdxUri("did:b", Post, "1"),
     AdxUri("did:a", Unregistered, "1")}
MalformedUris ==
    {AdxUri("bob", Like, "1"), AdxUri("did:a", "", "1"), AdxUri("did:a", Like, "")}
Uris == WellFormedUris \cup MalformedUris

Collections == PluginCollections \cup {Unregistered, ""}

\* Record keys of the listed collection: "10" sorts before "2".
KeyList == <<"2", "10", "1", "9", "100", "19">>
Keys == {KeyList[i] : i \in 1 .. NumKeys}
ListUris == {AdxUri("did:a", Post, k) : k \in Keys}
\* Records of another did and of another collection, with a key of the list.
OtherUris == {AdxUri("did:b", Post, "1"), AdxUri("did:a", Profile, "1")}
\* The records written while the collection is paged through.
ScanUris == {AdxUri("did:a", Post, KeyList[i]) : i \in 1 .. NumScanKeys}

Bounds == {<<>>} \cup {<<k>> : k \in Keys}
Limits == 0 .. MaxLimit

SchemaChars == DOMAIN AsciiCode

RECURSIVE StringsUpTo(_)
StringsUpTo(n) ==
    IF n = 0 THEN {""}
    ELSE LET shorter == StringsUpTo(n - 1)
         IN shorter \cup {s \o ch : s \in shorter, ch \in SchemaChars}

\* opts.schema: undefined, or a string.
Schemas == {<<>>} \cup {<<s>> : s \in StringsUpTo(MaxSchemaLen)}

\* Rows of the feed query: posts and reposts, with and without requester
\* state.
FeedRows ==
    [type : {"post", "repost"},
     postUri : {"at://did:x/app.bsky.post/1"},
     cursor : {"2022-10-01T00:00:00Z"},
     recordRaw : {JSONStringify(PostHi)},
     indexedAt : {"2022-10-01T00:00:00Z"},
     authorDid : {"did:x", "did:y"},
     authorName : {"x.test"},
     authorDisplayName : {JsString("X")},
     originatorDid : {"did:x", "did:y"},
     originatorName : {"y.test"},
     originatorDisplayName : {Null},
     likeCount : {1},
     repostCount : {1},
     replyCount : {0},
     requesterRepost : {Null, JsString("at://did:x/app.x.repost/abc")},
     requesterLike : {Null, JsString(""), JsString("at://did:x/app.bsky.like/1")}]

RepoDids == {"did:a", "did:b", "did:c"}
Roots == {[digest |-> "afy1"], [digest |-> "afy2"], [digest |-> "afy3"]}

----------------------------------------------------------------------------
(* Specifications *)

InitCalls ==
    /\ calls = [c \in Slots |-> IdleCall]
    /\ undisturbed = [c \in Slots |-> TRUE]
    /\ failed = FALSE
    /\ lastRoot = [d \in RepoDids |-> Null]
    /\ pg = NoPg
    /\ feed = <<>>
    /\ scan = NoScan

InitTables ==
    /\ record = {}
    /\ typed = [c \in PluginCollections |-> {}]
    /\ user_notification = [n \in {} |-> 0]
    /\ InitCalls

\* The store after createTables().
Init ==
    /\ InitTables
    /\ repo_root = {}

\* The store once OtherUris have been indexed with success.
InitList ==
    /\ record = {RecordRow(uri, PostHi) : uri \in OtherUris}
    /\ typed = [c \in PluginCollections |->
                    {TypedRow(uri, PostHi) : uri \in {u \in OtherUris : u.collection = c}}]
    /\ user_notification = [n \in {} |-> 0]
    /\ InitCalls
    /\ repo_root = {}

\* No statement of Database inserts into repo_root: its rows are written
\* through the db handle from outside, so the store starts with any of them.
InitRepo ==
    /\ InitTables
    /\ \E held \in SUBSET RepoDids : \E root \in [held -> Roots] :
          repo_root = {[did |-> d, root |-> CidToString(root[d])] : d \in held}

Step(c) ==
    \/ IndexInsertRecord(c)
    \/ IndexInsertTyped(c)
    \/ IndexProcessNotifs(c)
    \/ DeleteTyped(c)
    \/ DeleteFromRecord(c)
    \/ DeleteNotifs(c)

\* Calls of the write path by the callers S, on the URIs U with payloads O.
Writes(S, U, O) ==
    \/ \E c \in S, uri \in U, obj \in O : IndexRecord(c, uri, obj)
    \/ \E c \in S, uri \in U : DeleteRecord(c, uri)
    \/ \E c \in S : Step(c)

\* Concurrent callers writing two records.
Next == Writes(Slots, CoreUris, {LikeOfB})

Spec == Init /\ [][Next]_vars

\* One caller at a time, every kind of URI and payload, and validation.
NextSeq ==
    \/ Writes({1}, Uris, Objs)
    \/ \E collection \in Collections, obj \in Objs : ValidateRecord(1, collection, obj)
    \/ \E collection \in Collections, obj \in Objs : CanIndexRecord(1, collection, obj)

SpecSeq == Init /\ [][NextSeq]_vars

\* One caller at a time writing the records of one collection of a did, for
\* the listing reads.
NextList == Writes({1}, ListUris, {PostHi})

SpecList == InitList /\ [][NextList]_vars

\* One caller writing the records of a collection while another pages
\* through it.
NextScan ==
    \/ Writes({1}, ScanUris, {PostHi})
    \/ \E limit \in Limits \ {0}, reverse \in BOOLEAN : ScanStart("did:a", Post, limit, reverse)
    \/ ScanPage

SpecScan == InitList /\ [][NextScan]_vars

\* The repo_root table alone.
NextRepo == \E did \in RepoDids, root \in Roots : UpdateRepoRoot(did, root)

SpecRepo == InitRepo /\ [][NextRepo]_vars

\* Two concurrent callers, each writing a record of its own.
NextApart ==
    \/ Writes({1}, {AdxUri("did:a", Like, "1")}, {LikeOfB})
    \/ Writes({2}, {AdxUri("did:b", Like, "1")}, {LikeOfB})

SpecApart == Init /\ [][NextApart]_vars

\* The store once the likes CoreUris have been indexed with success.
InitLiked ==
    /\ record = {RecordRow(uri, LikeOfB) : uri \in CoreUris}
    /\ typed = [c \in PluginCollections |->
                    {TypedRow(uri, LikeOfB) : uri \in {u \in CoreUris : u.collection = c}}]
    /\ user_notification =
          [n \in UNION {NotifsForRecord(findTableForCollection(uri.collection).value,
                                        uri, LikeOfB) : uri \in CoreUris} |-> 1]
    /\ InitCalls
    /\ repo_root = {}

\* Two callers, each deleting one of the likes stored, once.
NextDel ==
    \/ \E c \in Slots, uri \in CoreUris : calls[c].pc = "idle" /\ DeleteRecord(c, uri)
    \/ \E c \in Slots : DeleteTyped(c)
    \/ \E c \in Slots : DeleteFromRecord(c)
    \/ \E c \in Slots : DeleteNotifs(c)

SpecDel == InitLiked /\ [][NextDel]_vars

\* One construction of the networked store (each call of Database.postgres
\* returns a Database with a pool of its own), and the connections of its pool.
NextPg ==
    \/ \E schema \in Schemas : pg = NoPg /\ Postgres(schema)
    \/ PgConnect

SpecPg == Init /\ [][NextPg]_vars

\* Projections of feed rows.
NextFeed == \E row \in FeedRows : RowToFeedItem(row)

SpecFeed == Init /\ [][NextFeed]_vars

----------------------------------------------------------------------------
(* Claims *)

Succeeded(c, op) ==
    calls[c].op = op /\ calls[c].pc = "done" /\ calls[c].result.returned

\* The URIs of a listing.
UrisOf(res) == {res[i].uri : i \in DOMAIN res}

\* C1. Round trip: once indexRecord(u, obj) has succeeded, and as long as no
\* statement of a deleteRecord(u) has been applied since the call began,
\* getRecord(u) returns obj and u.collection is among
\* listCollectionsForDid(u.did).
RoundTrip ==
    \A c \in Slots :
        Succeeded(c, "indexRecord") /\ undisturbed[c] =>
            /\ getRecord(calls[c].uri) = calls[c].obj
            /\ calls[c].uri.collection \in DOMAIN listCollectionsForDid(calls[c].uri.host)

\* An indexRecord has succeeded, and afterwards the other caller has deleted
\* the other record.
RoundTripWitness ==
    \E c, d \in Slots :
        /\ Succeeded(c, "indexRecord") /\ undisturbed[c]
        /\ Succeeded(d, "deleteRecord")
        /\ calls[d].uri # calls[c].uri
        /\ getRecord(calls[c].uri) = LikeOfB
        /\ Cardinality(record) = 1

\* C2. Delete removes all traces: once deleteRecord(u) has succeeded, and as
\* long as no statement of an indexRecord(u) has been applied since the call
\* began, getRecord(u) returns null and no listing of u's collection, for
\* any limit, direction and bounds, holds u.
DeleteRemovesAllTraces ==
    \A c \in Slots :
        Succeeded(c, "deleteRecord") /\ undisturbed[c] =>
            /\ getRecord(calls[c].uri) = Null
            /\ \A limit \in Limits, reverse \in BOOLEAN, before \in Bounds, after \in Bounds :
                  UriToString(calls[c].uri) \notin
                      UrisOf(listRecordsForCollection(calls[c].uri.host,
                             calls[c].uri.collection, limit, reverse, before, after))

\* A deleteRecord has succeeded on a record that had been indexed with
\* success by the other caller, whose other record is still listed.
DeleteRemovesAllTracesWitness ==
    \E c, d \in Slots :
        /\ Succeeded(c, "deleteRecord") /\ undisturbed[c]
        /\ Succeeded(d, "indexRecord") /\ ~undisturbed[d]
        /\ calls[d].uri = calls[c].uri
        /\ record = {}

\* C3. Rejection without partial write: an indexRecord called with a URI whose
\* did lacks the "did:" prefix, or whose collection or record key is empty,
\* ends at once with a contract-violation error, and the log, the typed
\* tables and the notifications are as before the call.
Malformed(uri) ==
    \/ ~StartsWith(uri.host, "did:")
    \/ uri.collection = ""
    \/ uri.recordKey = ""

RejectionWithoutWrite ==
    [][\A c \in Slots :
          (calls'[c] # calls[c] /\ Free(c) /\ calls'[c].op = "indexRecord"
              /\ Malformed(calls'[c].uri)) =>
            /\ calls'[c].pc = "done"
            /\ calls'[c].result.threw \in ContractViolations
            /\ UNCHANGED tables]_vars

\* An indexRecord was rejected for its empty record key while the store held
\* a record with its typed row and its notification.
RejectionWitness ==
    \E c \in Slots :
        /\ calls[c].op = "indexRecord" /\ calls[c].pc = "done"
        /\ calls[c].uri.recordKey = ""
        /\ calls[c].result.threw = ExpectedRecordKey
        /\ record # {} /\ typed[Like] # {} /\ DOMAIN user_notification # {}

\* C4. Pagination consistency.  For the records of one (did, collection):
\* a forward listing returns the first min(limit, n) records within the
\* bounds in ascending key order, after and before being exclusive; a
\* reverse listing returns its records in descending key order.

KeyOf(uriString) == (CHOOSE r \in record : r.uri = uriString).recordKey

KeysOf(res) == [i \in DOMAIN res |-> KeyOf(res[i].uri)]

\* The keys of the (did, collection) strictly between the bounds given.
KeysWithin(did, collection, before, after) ==
    {r.recordKey : r \in {q \in record :
        /\ q.did = did /\ q.collection = collection
        /\ before # <<>> => StrLess(q.recordKey, before[1])
        /\ after # <<>> => StrLess(after[1], q.recordKey)}}

Smaller(m, n) == IF m < n THEN m ELSE n

\* keys are the first (ascending) or the last (descending) Smaller(limit, n)
\* of the keys within, in order.
PageOf(keys, within, limit, desc) ==
    /\ Len(keys) = Smaller(limit, Cardinality(within))
    /\ \A i \in DOMAIN keys :
        /\ keys[i] \in within
        /\ i < Len(keys) =>
              IF desc THEN StrLess(keys[i + 1], keys[i]) ELSE StrLess(keys[i], keys[i + 1])
        /\ \A k \in within :
              (IF desc THEN StrLess(keys[i], k) ELSE StrLess(k, keys[i]))
                  => \E j \in DOMAIN keys : keys[j] = k

ForwardPage(did, collection, limit, before, after) ==
    \A res \in {listRecordsForCollection(did, collection, limit, FALSE, before, after)} :
    \A keys \in {KeysOf(res)} :
        /\ PageOf(keys, KeysWithin(did, collection, before, after), limit, FALSE)
        /\ \A i \in DOMAIN res :
              res[i].uri = UriToString(AdxUri(did, collection, keys[i]))

SameRecords(did, collection, limit, before, after) ==
    UrisOf(listRecordsForCollection(did, collection, limit, TRUE, before, after))
        = UrisOf(listRecordsForCollection(did, collection, limit, FALSE, before, after))

Descending(did, collection, limit, before, after) ==
    \A keys \in {KeysOf(listRecordsForCollection(did, collection, limit, TRUE, before, after))} :
        \A i \in DOMAIN keys : i < Len(keys) => StrLess(keys[i + 1], keys[i])

\* C4 as claimed: the reverse listing returns the records of the forward
\* listing of the same limit and bounds, in descending order.
PaginationAsClaimed ==
    \A limit \in Limits, before \in Bounds, after \in Bounds :
        /\ ForwardPage("did:a", Post, limit, before, after)
        /\ Descending("did:a", Post, limit, before, after)
        /\ SameRecords("did:a", Post, limit, before, after)

\* C4 as amended: the reverse listing returns the last min(limit, n) records
\* within the bounds, in descending order; they are the records of the
\* forward listing when limit is at least the number of records within the
\* bounds.
Pagination ==
    \A limit \in Limits, before \in Bounds, after \in Bounds :
    \A within \in {KeysWithin("did:a", Post, before, after)} :
    \A fwd \in {listRecordsForCollection("did:a", Post, limit, FALSE, before, after)} :
    \A rev \in {listRecordsForCollection("did:a", Post, limit, TRUE, before, after)} :
        /\ PageOf(KeysOf(fwd), within, limit, FALSE)
        /\ PageOf(KeysOf(rev), within, limit, TRUE)
        /\ \A i \in DOMAIN fwd :
              fwd[i].uri = UriToString(AdxUri("did:a", Post, KeyOf(fwd[i].uri)))
        /\ \A i \in DOMAIN rev :
              rev[i].uri = UriToString(AdxUri("did:a", Post, KeyOf(rev[i].uri)))
        /\ limit >= Cardinality(within) => UrisOf(rev) = UrisOf(fwd)

\* The collection holds all its keys and other rows of the log do not belong
\* to it, so that a limit of two cuts the listing and a bound cuts the range.
PaginationWitness ==
    /\ KeysWithin("did:a", Post, <<>>, <<>>) = Keys
    /\ Cardinality(record) = NumKeys + 2
    /\ Len(listRecordsForCollection("did:a", Post, 2, TRUE, <<>>, <<"1">>)) = 2
    /\ Len(listRecordsForCollection("did:a", Post, 2, FALSE, <<"2">>, <<>>)) = 2

\* C5. Notification fan-out, as claimed: once indexRecord(u, obj) has
\* succeeded (no deleteRecord(u) statement applied since it began), the
\* notifications stored with source u are exactly notifsForRecord(u, obj),
\* one copy each; once deleteRecord(u) has succeeded (no indexRecord(u)
\* statement applied since it began), no notification with source u is
\* stored; and no statement of a deleteRecord(u) changes the notifications
\* stored with another source.
StoredFor(uri) ==
    [n \in {m \in DOMAIN user_notification : m.recordUri = UriToString(uri)} |->
        user_notification[n]]

StoredForPrimed(uri) ==
    [n \in {m \in DOMAIN user_notification' : m.recordUri = UriToString(uri)} |->
        user_notification'[n]]

NotificationFanOut ==
    /\ [](\A c \in Slots :
            /\ Succeeded(c, "indexRecord") /\ undisturbed[c] =>
                  StoredFor(calls[c].uri) =
                      [n \in NotifsForRecord(
                                findTableForCollection(calls[c].uri.collection).value,
                                calls[c].uri, calls[c].obj) |-> 1]
            /\ Succeeded(c, "deleteRecord") /\ undisturbed[c] =>
                  DOMAIN StoredFor(calls[c].uri) = {})
    /\ [][\A c \in Slots :
            (calls'[c] # calls[c] /\ calls[c].op = "deleteRecord"
                /\ calls[c].pc = "removing") =>
              \A uri \in Uris \ {calls[c].uri} : StoredForPrimed(uri) = StoredFor(uri)]_vars

\* C6. Validation agreement: canIndexRecord of a registered collection
\* returns validateRecord(collection, obj).valid; validateRecord of a
\* collection without plugin returns the verdict Incompatible, "Schema not
\* found", not valid; neither call changes a table.
ValidationAgreement ==
    [][\A c \in Slots :
          calls'[c] # calls[c] =>
            /\ calls'[c].op \in {"canIndexRecord", "validateRecord"} =>
                  UNCHANGED <<tables, repo_root>>
            /\ (calls'[c].op = "canIndexRecord"
                    /\ calls'[c].collection \in PluginCollections) =>
                  calls'[c].result =
                      Returned(validateRecord(calls'[c].collection, calls'[c].obj).value.valid)
            /\ (calls'[c].op = "validateRecord"
                    /\ calls'[c].collection \notin PluginCollections) =>
                  calls'[c].result =
                      Returned([valid |-> FALSE, code |-> "Incompatible",
                                message |-> "Schema not found"])]_vars

\* canIndexRecord has answered false for a payload that is no valid like,
\* while the store holds records.
ValidationAgreementWitness ==
    /\ calls[1].op = "canIndexRecord" /\ calls[1].collection = Like
    /\ calls[1].obj = PostHi
    /\ calls[1].result = Returned(FALSE)
    /\ validateRecord(Like, LikeOfB).value.valid
    /\ record # {}

\* C7. Asymmetric lookup failure: for a collection without plugin,
\* canIndexRecord fails with the error of findTableForCollection while
\* validateRecord returns a verdict; findTableForCollection returns the
\* plugin of the collection when one is registered and fails otherwise.
AsymmetricLookup ==
    /\ \A c \in Slots :
          (calls[c].pc = "done" /\ calls[c].collection \notin PluginCollections) =>
            /\ calls[c].op = "canIndexRecord" =>
                  /\ ~calls[c].result.returned
                  /\ calls[c].result.threw = TableNotFound
                  /\ calls[c].result.threw =
                        findTableForCollection(calls[c].collection).threw
            /\ calls[c].op = "validateRecord" =>
                  /\ calls[c].result.returned
                  /\ calls[c].result.value.code = "Incompatible"
    /\ \A collection \in Collections :
          IF \E i \in DOMAIN records : records[i].collection = collection
          THEN /\ findTableForCollection(collection).returned
               /\ findTableForCollection(collection).value.collection = collection
          ELSE findTableForCollection(collection) = Threw(TableNotFound)

\* canIndexRecord has failed on the collection without plugin.
AsymmetricLookupWitness ==
    /\ calls[1].op = "canIndexRecord" /\ calls[1].pc = "done"
    /\ calls[1].collection = Unregistered
    /\ calls[1].result.threw = TableNotFound
    /\ validateRecord(Unregistered, calls[1].obj).returned

\* C8. Repo root set/get, as claimed: after a completed updateRepoRoot(did,
\* root), whether or not a root was stored for did before, getRepoRoot(did)
\* returns the root of the last completed call; getRepoRoot(did) is null only
\* when updateRepoRoot was never completed for did.
RepoRootSetGet ==
    \A did \in RepoDids :
        /\ lastRoot[did] # Null => getRepoRoot(did) = lastRoot[did]
        /\ getRepoRoot(did) = Null => lastRoot[did] = Null

\* C9. Idempotent delete, as claimed: deleteRecord(u) of a registered
\* collection, called while u is in neither the log nor its typed table, raises
\* no lookup error, and whichever of its three removals is executed first
\* leaves the log, the typed tables and the notifications unchanged.  (With one
\* caller the tables are then still those of the call's beginning, and the
\* three removals act on three different tables.)
IdempotentDelete ==
    [][\A c \in Slots :
          /\ (calls'[c] # calls[c] /\ Free(c) /\ calls'[c].op = "deleteRecord"
                /\ calls'[c].uri.collection \in PluginCollections
                /\ Absent(calls'[c].uri)) =>
                calls'[c].result.threw = ""
          /\ (calls'[c] # calls[c] /\ calls[c].pc = "removing"
                /\ calls[c].pending = Removals /\ Absent(calls[c].uri)) =>
                UNCHANGED tables]_vars

\* C10. Log / typed-index consistency, as claimed: when no call is in
\* progress and no call has failed, every URI of the log has exactly one row
\* in the typed table of its collection's plugin, and every typed row has its
\* log entry.
LogTypedConsistency ==
    ((\A c \in Slots : Free(c)) /\ ~failed) =>
        /\ \A r \in record :
              /\ findTableForCollection(r.collection).returned
              /\ Cardinality({t \in typed[r.collection] : t.uri = r.uri}) = 1
        /\ \A collection \in PluginCollections : \A t \in typed[collection] :
              \E r \in record : r.uri = t.uri /\ r.collection = collection

\* C11. Partition-name validation: Database.postgres with a schema name
\* that does not consist of one or more of the characters A-Z, a-z and _ fails
\* with the configuration error, returns no Database and has opened no
\* connection; with such a name, or with none, it returns a Database.
NameLetters == {"A", "Z", "a", "z"}

WellNamed(schema) ==
    /\ schema # ""
    /\ \A i \in 1 .. Len(schema) : SubSeq(schema, i, i) \in NameLetters \cup {"_"}

PartitionNameValidation ==
    pg.called =>
        IF pg.schema # <<>> /\ ~WellNamed(pg.schema[1])
        THEN /\ pg.threw = SchemaError(pg.schema[1])
             /\ ~pg.database
             /\ pg.connections = 0 /\ pg.searchPaths = <<>>
        ELSE /\ pg.threw = ""
             /\ pg.database
             /\ \A i \in DOMAIN pg.searchPaths : WellNamed(pg.searchPaths[i])

\* The empty name has been rejected.
PartitionNameValidationWitness ==
    /\ pg.called /\ pg.schema = <<"">>
    /\ pg.threw # "" /\ ~pg.database /\ pg.pool

\* C12. Feed projection: the item's author.did is the row's authorDid;
\* repostedBy is present, with the row's originatorDid, exactly for the rows of
\* type repost; myState.like and myState.repost are the row's requesterLike
\* and requesterRepost when these are not null and absent when they are; two
\* projections of one row are the same item.
Present(row, item) ==
    /\ item.author.did = row.authorDid
    /\ IF row.type = "repost"
       THEN item.repostedBy # Undefined /\ item.repostedBy # Null
            /\ item.repostedBy.did = row.originatorDid
       ELSE item.repostedBy = Undefined
    /\ item.myState.like =
          (IF row.requesterLike = Null THEN Undefined ELSE row.requesterLike)
    /\ item.myState.repost =
          (IF row.requesterRepost = Null THEN Undefined ELSE row.requesterRepost)

FeedProjection ==
    /\ \A i \in DOMAIN feed : Present(feed[i].row, feed[i].item)
    /\ \A i, j \in DOMAIN feed : feed[i].row = feed[j].row => feed[i].item = feed[j].item

\* The repost of did:y of a post of did:x, reposted but not liked by the
\* requester, has been projected twice.
FeedProjectionWitness ==
    /\ Len(feed) = 2 /\ feed[1].row = feed[2].row
    /\ feed[1].row.type = "repost"
    /\ feed[1].row.authorDid = "did:x" /\ feed[1].row.originatorDid = "did:y"
    /\ feed[1].row.requesterLike = Null
    /\ feed[1].row.requesterRepost = JsString("at://did:x/app.x.repost/abc")
    /\ feed[1].item.author.did = "did:x"
    /\ feed[1].item.repostedBy.did = "did:y"
    /\ feed[1].item.myState.like = Undefined
    /\ feed[1].item.myState.repost = JsString("at://did:x/app.x.repost/abc")

\* C13. indexRecord step order and no rollback.  With one caller: a step of
\* an indexRecord writes the log only as its first statement, the typed table
\* only once its log row is stored, the notifications only once its typed row
\* is stored too; a step that fails (the plugin lookup of a collection without
\* plugin, the typed insert, the notification processing) ends the call,
\* leaves every table as it is, rows already written included, and no
\* statement of the call follows.
StepOrderNoRollback ==
    [][\A c \in Slots :
        LET call == calls[c]
            row == RecordRow(call.uri, call.obj)
            stored == \E t \in typed[call.uri.collection] : t.uri = row.uri
        IN /\ (call.op = "indexRecord" /\ InProgress(c) /\ calls'[c] # call) =>
                /\ record' # record => call.pc = "log"
                /\ typed' # typed => call.pc = "typed" /\ row \in record
                /\ user_notification' # user_notification =>
                      call.pc = "notifs" /\ row \in record /\ stored
                /\ (call.pc = "typed" /\ call.uri.collection \notin PluginCollections) =>
                      calls'[c].result = Threw(TableNotFound)
                /\ calls'[c].result.threw # "" =>
                      /\ calls'[c].pc = "done"
                      /\ UNCHANGED tables
                      /\ call.pc \in {"typed", "notifs"} => row \in record'
                      /\ call.pc = "notifs" =>
                            \E t \in typed'[call.uri.collection] : t.uri = row.uri
           /\ (call.pc = "done" /\ calls'[c] # call) => UNCHANGED tables]_vars

\* An indexRecord of a collection without plugin has failed at the lookup,
\* its log row stored.
StepOrderNoRollbackWitness ==
    /\ calls[1].op = "indexRecord" /\ calls[1].pc = "done"
    /\ calls[1].uri.collection = Unregistered
    /\ calls[1].result = Threw(TableNotFound)
    /\ RecordRow(calls[1].uri, calls[1].obj) \in record

\* C14. deleteRecord partial failure.  With one caller: deleteRecord issues
\* its three removals together, without writing; each step of the call
\* finishes one of them, which either removes the rows of the URI from its
\* table or fails and leaves every table as it is; the call ends when the
\* three have finished, with success only if the URI is then in none of the
\* tables, and with an error once a removal has failed, the removals applied
\* staying applied.
Gone(rows, uri) == {r \in rows : r.uri # UriToString(uri)}

RemovalApplied(removal, uri) ==
    CASE removal = "typed" ->
            /\ typed' = [typed EXCEPT ![uri.collection] = Gone(@, uri)]
            /\ UNCHANGED <<record, user_notification>>
      [] removal = "log" ->
            /\ record' = Gone(record, uri)
            /\ UNCHANGED <<typed, user_notification>>
      [] removal = "notifs" ->
            /\ DOMAIN user_notification' =
                  {n \in DOMAIN user_notification : n.recordUri # UriToString(uri)}
            /\ \A n \in DOMAIN user_notification' :
                  user_notification'[n] = user_notification[n]
            /\ UNCHANGED <<record, typed>>

DeletePartialFailure ==
    [][\A c \in Slots :
        LET call == calls[c]
            after == calls'[c]
        IN /\ (Free(c) /\ after # call /\ after.op = "deleteRecord"
                    /\ after.uri.collection \in PluginCollections) =>
                /\ after.pc = "removing" /\ after.pending = {"typed", "log", "notifs"}
                /\ UNCHANGED tables
           /\ (call.op = "deleteRecord" /\ call.pc = "removing" /\ after # call) =>
                /\ \E removal \in call.pending :
                      /\ after.pending = call.pending \ {removal}
                      /\ \/ RemovalApplied(removal, call.uri)
                         \/ UNCHANGED tables /\ after.result.threw # ""
                /\ after.pc = "done" <=> after.pending = {}
                /\ call.result.threw # "" => after.result = call.result
                /\ after.result.returned =>
                      /\ after.pending = {}
                      /\ record' = Gone(record', call.uri)
                      /\ typed'[call.uri.collection] =
                            Gone(typed'[call.uri.collection], call.uri)
                      /\ \A n \in DOMAIN user_notification' :
                            n.recordUri # UriToString(call.uri)
                /\ after.pc = "done" => after.result.returned \/ after.result.threw # ""
           /\ (call.op = "deleteRecord" /\ call.pc = "done" /\ after # call) =>
                UNCHANGED tables]_vars

\* What a failed deleteRecord of slot 1, the only call made, has left of the
\* like it was to delete: its log row, its typed row, its notification.
LeftOf(inLog, inTyped, inNotifs) ==
    /\ calls[2].pc = "idle"
    /\ calls[1].op = "deleteRecord" /\ calls[1].pc = "done"
    /\ calls[1].result.threw # ""
    /\ inLog <=> \E r \in record : r.uri = UriToString(calls[1].uri)
    /\ inTyped <=> \E t \in typed[Like] : t.uri = UriToString(calls[1].uri)
    /\ inNotifs <=> \E n \in DOMAIN user_notification :
                        n.recordUri = UriToString(calls[1].uri)

\* The call has failed having removed the typed row and the notification of
\* the like, its log row left in place.
DeletePartialFailureWitness == LeftOf(TRUE, FALSE, FALSE)

\* C15. Independence across URIs: a step of an indexRecord or deleteRecord
\* call on u leaves the log row, the typed row and the notifications of every
\* other URI as they are, and what it does (the error it raises or the rows of
\* u it writes or removes) is decided by the rows of u alone, whatever calls
\* on other URIs are in flight.
View(uri) ==
    [log |-> {r \in record : r.uri = UriToString(uri)},
     typed |-> {t \in typed[uri.collection] : t.uri = UriToString(uri)},
     notifs |-> StoredFor(uri)]

ViewPrimed(uri) ==
    [log |-> {r \in record' : r.uri = UriToString(uri)},
     typed |-> {t \in typed'[uri.collection] : t.uri = UriToString(uri)},
     notifs |-> StoredForPrimed(uri)]

\* The notifications of a source once the events given have been added.
WithEvents(stored, events) ==
    [n \in DOMAIN stored \cup events |->
        (IF n \in DOMAIN stored THEN stored[n] ELSE 0) + (IF n \in events THEN 1 ELSE 0)]

\* What a step of the call does, read off the rows of its own URI.
OwnOutcome(call, after, view, viewAfter) ==
    LET unavailable == after.result = Threw(StorageUnavailable) /\ viewAfter = view
        conflict == after.result = Threw(StorageConflict) /\ viewAfter = view
    IN CASE call.pc = "log" ->
              IF view.log # {} THEN unavailable \/ conflict
              ELSE \/ unavailable
                   \/ /\ after.pc = "typed" /\ after.result = Pending
                      /\ viewAfter = [view EXCEPT !.log = {RecordRow(call.uri, call.obj)}]
         [] call.pc = "typed" ->
              IF view.typed # {} THEN unavailable \/ conflict
              ELSE \/ unavailable
                   \/ /\ after.pc = "notifs" /\ after.result = Pending
                      /\ viewAfter = [view EXCEPT !.typed = {TypedRow(call.uri, call.obj)}]
         [] call.pc = "notifs" ->
              \/ unavailable
              \/ /\ after.result = Returned(Null)
                 /\ viewAfter = [view EXCEPT !.notifs = WithEvents(@,
                        NotifsForRecord(findTableForCollection(call.uri.collection).value,
                                        call.uri, call.obj))]
         [] call.pc = "removing" ->
              \E removal \in call.pending :
                 /\ after.pending = call.pending \ {removal}
                 /\ \/ viewAfter = view /\ after.result.threw = StorageUnavailable
                    \/ /\ after.result.threw = call.result.threw
                       /\ viewAfter =
                            CASE removal = "typed" -> [view EXCEPT !.typed = {}]
                              [] removal = "log" -> [view EXCEPT !.log = {}]
                              [] removal = "notifs" -> [view EXCEPT !.notifs = << >>]

IndependenceAcrossUris ==
    [][\A c \in Slots :
        LET call == calls[c]
            after == calls'[c]
        IN /\ (Free(c) /\ after # call) => UNCHANGED tables
           /\ (InProgress(c) /\ after # call) =>
                /\ \A other \in CoreUris \ {call.uri} : ViewPrimed(other) = View(other)
                /\ \A view \in {View(call.uri)}, viewAfter \in {ViewPrimed(call.uri)} :
                      OwnOutcome(call, after, view, viewAfter)]_vars

\* An indexRecord and a deleteRecord on different URIs are in flight
\* together, each with a statement applied.
IndependenceAcrossUrisWitness ==
    /\ calls[1].op = "indexRecord" /\ calls[1].pc = "typed"
    /\ calls[2].op = "deleteRecord" /\ calls[2].pc = "removing"
    /\ calls[2].pending = {"log"} /\ calls[2].result.threw = ""
    /\ calls[1].uri # calls[2].uri
    /\ View(calls[1].uri).log # {}
    /\ View(calls[2].uri).log # {} /\ View(calls[2].uri).typed = {}

\* C16. Same-URI race is last-write-wins, as claimed: when no call is in
\* progress, none has failed, and an indexRecord(u, obj) and a deleteRecord(u)
\* have both succeeded, u is either in the log, in its typed table and with
\* its notifications, or in none of the three.
PresentEverywhere(uri, obj) ==
    /\ View(uri).log = {RecordRow(uri, obj)}
    /\ View(uri).typed = {TypedRow(uri, obj)}
    /\ View(uri).notifs =
          [n \in NotifsForRecord(findTableForCollection(uri.collection).value, uri, obj)
              |-> 1]

AbsentEverywhere(uri) ==
    View(uri) = [log |-> {}, typed |-> {}, notifs |-> << >>]

LastWriteWins ==
    \A c, d \in Slots :
        (/\ Succeeded(c, "indexRecord") /\ Succeeded(d, "deleteRecord")
         /\ calls[c].uri = calls[d].uri
         /\ ~failed) =>
            \/ PresentEverywhere(calls[c].uri, calls[c].obj)
            \/ AbsentEverywhere(calls[c].uri)

\* C17. Resumable cursor pagination.  A page of the traversal holds at most
\* limit keys, in strictly increasing order (decreasing, for reverse), all
\* beyond the last key of the page before, so that no key is returned twice;
\* the traversal ends at the first empty page, and then every record stored
\* ever since it began has been returned, whatever was indexed or deleted
\* between the pages; the empty page comes after at most one page per key
\* the collection can hold.
Beyond(a, b) == IF scan.reverse THEN StrLess(b, a) ELSE StrLess(a, b)

ResumablePagination ==
    /\ [](/\ scan.pc = "ended" => scan.owed = {} /\ scan.page = <<>>
          /\ scan.pc = "paging" => scan.pages <= NumScanKeys)
    /\ [][(scan.pc = "paging" /\ <<scan'.pc, scan'.page, scan'.cursor>>
                                        # <<scan.pc, scan.page, scan.cursor>>) =>
            \A page \in {scan'.page} :
              /\ Len(page) <= scan.limit
              /\ \A i \in DOMAIN page :
                    /\ i < Len(page) => Beyond(page[i], page[i + 1])
                    /\ scan.cursor # <<>> => Beyond(scan.cursor[1], page[i])
                    /\ \E r \in record : /\ r.recordKey = page[i]
                                         /\ r.did = scan.did
                                         /\ r.collection = scan.collection
              /\ scan'.pc = "ended" <=> page = <<>>
              /\ page # <<>> => scan'.cursor = <<page[Len(page)]>>]_vars

\* A reverse traversal by pages of one record has ended below the smallest
\* key, a record of the collection having been deleted meanwhile.
ResumablePaginationWitness ==
    /\ scan.pc = "ended" /\ scan.limit = 1 /\ scan.reverse /\ scan.pages = 3
    /\ scan.cursor = <<"10">>
    /\ {r.recordKey : r \in {q \in record : q.did = "did:a" /\ q.collection = Post}}
          = {"10"}

----------------------------------------------------------------------------
\* C18: the log holds at most one row per serialized URI; the log insert of
\* an indexRecord whose URI is in the log ends the call with a storage
\* failure and changes no table, so the payload, the typed row and the
\* notifications of the URI stay; and no step replaces the payload stored
\* for a URI: a row of the log appears by a log insert for a URI that had
\* none and disappears by a removal of a deleteRecord.
PayloadsOf(rows, uriString) == {r.raw : r \in {q \in rows : q.uri = uriString}}

OneLogRowPerUri ==
    /\ [](\A r, q \in record : r.uri = q.uri => r = q)
    /\ [][/\ \A c \in Slots :
              (calls[c].pc = "log" /\ calls'[c] # calls[c]
                 /\ PayloadsOf(record, UriToString(calls[c].uri)) # {}) =>
                 /\ calls'[c].pc = "done"
                 /\ calls'[c].result.threw \in StorageFailures
                 /\ UNCHANGED tables
          /\ \A uriString \in {r.uri : r \in record \cup record'} :
              \A before \in {PayloadsOf(record, uriString)} :
              \A after \in {PayloadsOf(record', uriString)} :
                 \/ after = before
                 \/ /\ before = {}
                    /\ \E c \in Slots :
                          /\ calls[c].op = "indexRecord" /\ calls[c].pc = "log"
                          /\ UriToString(calls[c].uri) = uriString
                          /\ after = {JSONStringify(calls[c].obj)}
                 \/ /\ after = {}
                    /\ \E c \in Slots :
                          /\ calls[c].op = "deleteRecord"
                          /\ UriToString(calls[c].uri) = uriString]_vars

\* A like stored with one payload has been indexed again with another: the
\* call failed at the log insert and the first payload is still the one stored.
OneLogRowPerUriWitness ==
    /\ calls[1].op = "indexRecord" /\ calls[1].pc = "done"
    /\ calls[1].uri = AdxUri("did:a", Like, "1") /\ calls[1].obj = LikeOfB
    /\ calls[1].result.threw = StorageConflict
    /\ PayloadsOf(record, UriToString(calls[1].uri)) = {JSONStringify(PostHi)}
    /\ \E t \in typed[Like] : t = TypedRow(calls[1].uri, PostHi)

----------------------------------------------------------------------------
\* C19: a deleteRecord of a URI whose collection has no plugin ends at its
\* invocation with the lookup's error, issues none of the three removals and
\* changes no table: the log row of the URI and every notification stay.
UnregisteredDelete(call) ==
    call.op = "deleteRecord" /\ call.uri.collection \notin PluginCollections

DeleteUnregistered ==
    /\ [](\A c \in Slots :
            UnregisteredDelete(calls[c]) =>
                /\ calls[c].pc = "done" /\ calls[c].pending = {}
                /\ calls[c].result = Threw(TableNotFound))
    /\ [][\A c \in Slots :
            (calls'[c] # calls[c] /\ UnregisteredDelete(calls'[c])) =>
                UNCHANGED tables]_vars

\* The log row an indexRecord left for a URI of a collection without plugin
\* is still stored after the deleteRecord of that URI.
DeleteUnregisteredWitness ==
    /\ UnregisteredDelete(calls[1])
    /\ calls[1].uri = AdxUri("did:a", Unregistered, "1")
    /\ \E r \in record : r.uri = UriToString(calls[1].uri)
    /\ \E n \in DOMAIN user_notification : user_notification[n] > 0

----------------------------------------------------------------------------
\* C20: indexRecord never consults the validator.  For a well-formed URI of
\* a registered collection and any payload, valid or not, the call passes
\* the URI checks and issues the log insert; it fails by a storage failure
\* only; and once it has returned, the log row, the typed row and the
\* notification events computed from (uri, obj) are stored.
Indexable(call) ==
    /\ call.op = "indexRecord"
    /\ UriError(RecordRow(call.uri, call.obj)) = ""
    /\ call.uri.collection \in PluginCollections

NoValidationGate ==
    /\ [](\A c \in Slots : Indexable(calls[c]) =>
            /\ calls[c].result.threw \in {""} \cup StorageFailures
            /\ Succeeded(c, "indexRecord") =>
                  /\ RecordRow(calls[c].uri, calls[c].obj) \in record
                  /\ TypedRow(calls[c].uri, calls[c].obj) \in typed[calls[c].uri.collection]
                  /\ \A n \in NotifsForRecord(
                                  findTableForCollection(calls[c].uri.collection).value,
                                  calls[c].uri, calls[c].obj) :
                        n \in DOMAIN user_notification /\ user_notification[n] > 0)
    /\ [][\A c \in Slots :
            (Free(c) /\ calls'[c] # calls[c] /\ Indexable(calls'[c])) =>
                calls'[c].pc = "log"]_vars

\* A post stored as a like: canIndexRecord refuses the payload, validateRecord
\* finds it invalid, and indexRecord has returned with its rows written.
NoValidationGateWitness ==
    /\ Indexable(calls[1]) /\ Succeeded(1, "indexRecord")
    /\ calls[1].uri = AdxUri("did:a", Like, "1") /\ calls[1].obj = PostHi
    /\ canIndexRecord(Like, PostHi) = Returned(FALSE)
    /\ ~validateRecord(Like, PostHi).value.valid
    /\ getRecord(calls[1].uri) = PostHi

====
